---- MODULE Spec2Model ----
(***************************************************************************)
(* Converters producing compute samples from notification events           *)
(* (ceilometer/compute/notifications/instance.py).                         *)
(*                                                                         *)
(* A notification message is a JSON-like tree.  Every value is tagged with *)
(* its Python type so that the isinstance test, the truth test and the     *)
(* subscript failures of the converters can be told apart.  The message is *)
(* mutated in place by process_notification; the generator returned by     *)
(* get_sample reads it when the caller iterates.                           *)
(***************************************************************************)
EXTENDS Integers, Sequences, FiniteSets, TLC

VARIABLES message, msg0, pre, variant, pc, gi, yielded, err, errStep, runs, calls

vars == <<message, msg0, pre, variant, pc, gi, yielded, err, errStep, runs, calls>>

(* ---------------------------- bounds ----------------------------------- *)
MaxSamples == 2
MaxCalls == 2

(* ---------------------------- values ----------------------------------- *)
Str(s) == [t |-> "str", s |-> s]
Num(n) == [t |-> "num", n |-> n]
Null == [t |-> "null"]
Map(m) == [t |-> "dict", m |-> m]
List(l) == [t |-> "list", l |-> l]
Empty == [k \in {} |-> Null]

IsDict(v) == v.t = "dict"
Has(d, k) == k \in DOMAIN d
Put(d, k, v) == [x \in (DOMAIN d) \cup {k} |-> IF x = k THEN v ELSE d[x]]
Del(d, k) == [x \in (DOMAIN d) \ {k} |-> d[x]]
Merge(d, e) == [x \in (DOMAIN d) \cup (DOMAIN e) |-> IF x \in DOMAIN e THEN e[x] ELSE d[x]]

\* Python truth value of a value
Truthy(v) ==
    CASE v.t = "null" -> FALSE
      [] v.t = "str" -> v.s # ""
      [] v.t = "num" -> v.n # 0
      [] v.t = "dict" -> DOMAIN v.m # {}
      [] v.t = "list" -> Len(v.l) > 0

\* outcome of evaluating obj[k]: the exception it raises, or "none"
SubscriptErr(obj, k) ==
    IF ~IsDict(obj) THEN "TypeError"
    ELSE IF ~Has(obj.m, k) THEN "KeyError"
    ELSE "none"

RECURSIVE PathErr(_, _)
\* outcome of evaluating obj[p1][p2]...[pn], left to right
PathErr(obj, path) ==
    IF path = <<>> THEN "none"
    ELSE IF SubscriptErr(obj, Head(path)) # "none" THEN SubscriptErr(obj, Head(path))
    ELSE PathErr(obj.m[Head(path)], Tail(path))

RECURSIVE At(_, _)
\* the object reached by obj[p1][p2]...[pn]
At(obj, path) == IF path = <<>> THEN obj ELSE At(obj.m[Head(path)], Tail(path))

RECURSIVE Assign(_, _, _)
\* the tree after the object at path has been mutated in place into new
Assign(obj, path, new) ==
    IF path = <<>> THEN new
    ELSE Map([obj.m EXCEPT ![Head(path)] = Assign(obj.m[Head(path)], Tail(path), new)])


(* ------------------- external collaborators ---------------------------- *)
\* sample.TYPE_GAUGE / sample.TYPE_DELTA (ceilometer.sample)
TYPE_GAUGE == Str("gauge")
TYPE_DELTA == Str("delta")

\* the namespace under which user metadata keys are re-keyed
RESERVED_PREFIX == "user_metadata."

\* util.add_reserved_user_metadata(src_metadata, dest_metadata): writes
\* dest[RESERVED_PREFIX + k] = src[k] for every key of a mapping src,
\* overwriting a colliding key; src itself is left alone
add_reserved_user_metadata(src, dest) ==
    IF ~IsDict(src) THEN dest
    ELSE Merge(dest, [x \in {RESERVED_PREFIX \o k : k \in DOMAIN src.m} |->
                         src.m[CHOOSE k \in DOMAIN src.m : x = RESERVED_PREFIX \o k]])

\* sample.Sample.from_notification(name=..., ..., message=message): the
\* sample keeps the fields it is given and a view of the originating message
from_notification(name, type, unit, volume, user_id, project_id, resource_id, msg) ==
    [name |-> name, type |-> type, unit |-> unit, volume |-> volume,
     user_id |-> user_id, project_id |-> project_id, resource_id |-> resource_id,
     message |-> msg]

(* ------------------- converters: event types --------------------------- *)
Variants == {"InstanceScheduled", "Instance", "Memory", "VCpus", "RootDiskSize",
             "EphemeralDiskSize", "InstanceFlavor", "InstanceDelete"}

\* the event_types attribute of each converter class
event_types(v) ==
    CASE v = "InstanceScheduled" -> {"scheduler.run_instance.scheduled"}
      [] v = "InstanceDelete" -> {"compute.instance.delete.samples"}
      [] OTHER -> {"compute.instance.*"}

\* glob match of the dispatcher, on the event types of the model
GlobMatch(pattern, et) ==
    \/ pattern = et
    \/ /\ pattern = "compute.instance.*"
       /\ et \in {"compute.instance.create.end", "compute.instance.delete.samples"}

Routed(v, msg) == \E p \in event_types(v) : GlobMatch(p, msg.m["event_type"].s)

(* ------------------- the shared pipeline ------------------------------- *)
\* mutant: InstanceScheduled does not override the lookup
get_instance_properties_nooverride(v, msg) ==
    [err |-> PathErr(msg, <<"payload">>), path |-> <<"payload">>]

\* get_instance_properties: where the instance properties live in the
\* message, and the exception of getting there
get_instance_properties(v, msg) ==
    LET path == IF v = "InstanceScheduled"
                THEN <<"payload", "request_spec", "instance_properties">>
                ELSE <<"payload">>
    IN [err |-> PathErr(msg, path), path |-> path]

\* mutant: the test only asks whether the key is there
HasMetadataDict_anykey(p) == Has(p, "metadata")

\* mutant: no test at all
HasMetadataDict_always(p) == TRUE

\* isinstance(instance_properties.get('metadata'), dict)
HasMetadataDict(p) == Has(p, "metadata") /\ IsDict(p["metadata"])

\* mutant: the del statement is missing
move_metadata_nodel(p) ==
    IF ~Has(p, "metadata") THEN [err |-> "KeyError", props |-> p]
    ELSE [err |-> "none", props |-> add_reserved_user_metadata(p["metadata"], p)]

\* the body of the if: src = props['metadata']; del props['metadata'];
\* add_reserved_user_metadata(src, props)
move_metadata(p) ==
    IF ~Has(p, "metadata") THEN [err |-> "KeyError", props |-> p]
    ELSE [err |-> "none", props |-> add_reserved_user_metadata(p["metadata"], Del(p, "metadata"))]

\* mutant: the pipeline hands the message to get_sample untouched
process_notification_skip(v, msg) ==
    LET loc == get_instance_properties(v, msg) IN
    IF loc.err # "none"
    THEN [err |-> loc.err, step |-> "locate", message |-> msg, runs |-> 0]
    ELSE [err |-> "none", step |-> "none", message |-> msg, runs |-> 0]

\* process_notification up to the return: locate, test, move.  The result is
\* the exception raised (or "none"), the step that raised it, the message
\* after the in-place mutation and the number of times the test was run.
process_notification(v, msg) ==
    LET loc == get_instance_properties(v, msg) IN
    IF loc.err # "none"
    THEN [err |-> loc.err, step |-> "locate", message |-> msg, runs |-> 0]
    ELSE LET props == At(msg, loc.path) IN
         IF ~IsDict(props)
         THEN [err |-> "AttributeError", step |-> "sanitize", message |-> msg, runs |-> 0]
         ELSE IF HasMetadataDict(props.m)
              THEN LET r == move_metadata(props.m) IN
                   IF r.err # "none"
                   THEN [err |-> r.err, step |-> "sanitize", message |-> msg, runs |-> 1]
                   ELSE [err |-> "none", step |-> "none",
                         message |-> Assign(msg, loc.path, Map(r.props)), runs |-> 1]
              ELSE [err |-> "none", step |-> "none", message |-> msg, runs |-> 1]

(* ------------------- get_sample of each converter ---------------------- *)
\* One step of the generator get_sample(message) at position pos: it yields
\* a sample and moves to position next, stops, or raises.
Yield(smp, next) == [kind |-> "yield", err |-> "none", sample |-> <<smp>>, next |-> next]
Stop(pos) == [kind |-> "stop", err |-> "none", sample |-> <<>>, next |-> pos]
Raise(e, pos) == [kind |-> "raise", err |-> e, sample |-> <<>>, next |-> pos]

RECURSIVE FirstErr(_)
\* the first exception of a left-to-right evaluation
FirstErr(errs) ==
    IF errs = <<>> THEN "none"
    ELSE IF Head(errs) # "none" THEN Head(errs) ELSE FirstErr(Tail(errs))

Payload(msg) == msg.m["payload"]

\* message['payload'][k]
PayloadErr(msg, k) == PathErr(msg, <<"payload", k>>)
PayloadGet(msg, k) == At(msg, <<"payload", k>>)

\* user_id, project_id, resource_id of the compute.instance.* converters
IdErrs(msg) == <<PayloadErr(msg, "user_id"), PayloadErr(msg, "tenant_id"),
                 PayloadErr(msg, "instance_id")>>

InstanceScheduled_get_sample(msg, pos) ==
    LET e == FirstErr(<<PathErr(msg, <<"payload", "request_spec", "instance_properties", "project_id">>),
                        PayloadErr(msg, "instance_id")>>)
    IN IF pos > 0 THEN Stop(pos)
       ELSE IF e # "none" THEN Raise(e, pos)
       ELSE Yield(from_notification(Str("instance.scheduled"), TYPE_DELTA, Str("instance"), Num(1),
                     Null,
                     At(msg, <<"payload", "request_spec", "instance_properties", "project_id">>),
                     PayloadGet(msg, "instance_id"), msg), 1)

Instance_get_sample(msg, pos) ==
    LET e == FirstErr(IdErrs(msg))
    IN IF pos > 0 THEN Stop(pos)
       ELSE IF e # "none" THEN Raise(e, pos)
       ELSE Yield(from_notification(Str("instance"), TYPE_GAUGE, Str("instance"), Num(1),
                     PayloadGet(msg, "user_id"), PayloadGet(msg, "tenant_id"),
                     PayloadGet(msg, "instance_id"), msg), 1)

Memory_get_sample(msg, pos) ==
    LET e == FirstErr(<<PayloadErr(msg, "memory_mb")>> \o IdErrs(msg))
    IN IF pos > 0 THEN Stop(pos)
       ELSE IF e # "none" THEN Raise(e, pos)
       ELSE Yield(from_notification(Str("memory"), TYPE_GAUGE, Str("MB"), PayloadGet(msg, "memory_mb"),
                     PayloadGet(msg, "user_id"), PayloadGet(msg, "tenant_id"),
                     PayloadGet(msg, "instance_id"), msg), 1)

VCpus_get_sample(msg, pos) ==
    LET e == FirstErr(<<PayloadErr(msg, "vcpus")>> \o IdErrs(msg))
    IN IF pos > 0 THEN Stop(pos)
       ELSE IF e # "none" THEN Raise(e, pos)
       ELSE Yield(from_notification(Str("vcpus"), TYPE_GAUGE, Str("vcpu"), PayloadGet(msg, "vcpus"),
                     PayloadGet(msg, "user_id"), PayloadGet(msg, "tenant_id"),
                     PayloadGet(msg, "instance_id"), msg), 1)

\* mutant: the volume is read from the field of the sibling converter
RootDiskSize_get_sample_ephemeral(msg, pos) ==
    LET e == FirstErr(<<PayloadErr(msg, "ephemeral_gb")>> \o IdErrs(msg))
    IN IF pos > 0 THEN Stop(pos)
       ELSE IF e # "none" THEN Raise(e, pos)
       ELSE Yield(from_notification(Str("disk.root.size"), TYPE_GAUGE, Str("GB"), PayloadGet(msg, "ephemeral_gb"),
                     PayloadGet(msg, "user_id"), PayloadGet(msg, "tenant_id"),
                     PayloadGet(msg, "instance_id"), msg), 1)

RootDiskSize_get_sample(msg, pos) ==
    LET e == FirstErr(<<PayloadErr(msg, "root_gb")>> \o IdErrs(msg))
    IN IF pos > 0 THEN Stop(pos)
       ELSE IF e # "none" THEN Raise(e, pos)
       ELSE Yield(from_notification(Str("disk.root.size"), TYPE_GAUGE, Str("GB"), PayloadGet(msg, "root_gb"),
                     PayloadGet(msg, "user_id"), PayloadGet(msg, "tenant_id"),
                     PayloadGet(msg, "instance_id"), msg), 1)

EphemeralDiskSize_get_sample(msg, pos) ==
    LET e == FirstErr(<<PayloadErr(msg, "ephemeral_gb")>> \o IdErrs(msg))
    IN IF pos > 0 THEN Stop(pos)
       ELSE IF e # "none" THEN Raise(e, pos)
       ELSE Yield(from_notification(Str("disk.ephemeral.size"), TYPE_GAUGE, Str("GB"), PayloadGet(msg, "ephemeral_gb"),
                     PayloadGet(msg, "user_id"), PayloadGet(msg, "tenant_id"),
                     PayloadGet(msg, "instance_id"), msg), 1)

\* 'instance:%s' % instance_type, for the scalar labels of the model
FlavorName(v) ==
    "instance:" \o (CASE v.t = "str" -> v.s
                      [] v.t = "num" -> ToString(v.n)
                      [] v.t = "null" -> "None")

\* message.get('payload', {}).get('instance_type')
FlavorLabel(msg) ==
    IF ~Has(msg.m, "payload") THEN Null
    ELSE IF Has(Payload(msg).m, "instance_type") THEN PayloadGet(msg, "instance_type")
    ELSE Null

\* mutant: the label is tested against None instead of for truth
InstanceFlavor_get_sample_notnone(msg, pos) ==
    LET e == FirstErr(IdErrs(msg))
    IN IF pos > 0 \/ FlavorLabel(msg) = Null THEN Stop(pos)
       ELSE IF e # "none" THEN Raise(e, pos)
       ELSE Yield(from_notification(Str(FlavorName(FlavorLabel(msg))), TYPE_GAUGE, Str("instance"), Num(1),
                     PayloadGet(msg, "user_id"), PayloadGet(msg, "tenant_id"),
                     PayloadGet(msg, "instance_id"), msg), 1)

InstanceFlavor_get_sample(msg, pos) ==
    LET e == FirstErr(IdErrs(msg))
    IN IF pos > 0 \/ ~Truthy(FlavorLabel(msg)) THEN Stop(pos)
       ELSE IF e # "none" THEN Raise(e, pos)
       ELSE Yield(from_notification(Str(FlavorName(FlavorLabel(msg))), TYPE_GAUGE, Str("instance"), Num(1),
                     PayloadGet(msg, "user_id"), PayloadGet(msg, "tenant_id"),
                     PayloadGet(msg, "instance_id"), msg), 1)

\* message['payload'].get('samples', [])
SamplesOf(msg) ==
    IF Has(Payload(msg).m, "samples") THEN PayloadGet(msg, "samples") ELSE List(<<>>)

\* the exception of building the sample of entry s, or "none"
EntryErr(msg, s) ==
    FirstErr(<<SubscriptErr(s, "name"), SubscriptErr(s, "type"), SubscriptErr(s, "unit"),
               SubscriptErr(s, "volume")>> \o IdErrs(msg))

EntrySample(msg, s) ==
    from_notification(s.m["name"], s.m["type"], s.m["unit"], s.m["volume"],
                      PayloadGet(msg, "user_id"), PayloadGet(msg, "tenant_id"),
                      PayloadGet(msg, "instance_id"), msg)

\* mutant: a malformed entry is skipped and the loop goes on
InstanceDelete_get_sample_skip(msg, pos) ==
    LET l == SamplesOf(msg) IN
    IF l.t # "list" THEN Raise("TypeError", pos)
    ELSE LET ok == {j \in (pos + 1)..Len(l.l) : EntryErr(msg, l.l[j]) = "none"} IN
         IF ok = {} THEN Stop(pos)
         ELSE LET j == CHOOSE j \in ok : \A h \in ok : j <= h
              IN Yield(EntrySample(msg, l.l[j]), j)

\* mutant: the ids are read from the entry
InstanceDelete_get_sample_entryids(msg, pos) ==
    LET l == SamplesOf(msg) IN
    IF l.t # "list" THEN Raise("TypeError", pos)
    ELSE IF pos >= Len(l.l) THEN Stop(pos)
    ELSE LET s == l.l[pos + 1]
             e == FirstErr(<<EntryErr(msg, s), SubscriptErr(s, "user_id")>>)
         IN IF e # "none" THEN Raise(e, pos)
            ELSE Yield([EntrySample(msg, s) EXCEPT !.user_id = s.m["user_id"]], pos + 1)

\* for s in samples: yield Sample.from_notification(name=s['name'], ...);
\* a value that is no list is iterated as Python iterates it
InstanceDelete_get_sample(msg, pos) ==
    LET l == SamplesOf(msg) IN
    IF l.t # "list"
    THEN IF l.t \in {"str", "dict"} /\ ~Truthy(l) THEN Stop(pos) ELSE Raise("TypeError", pos)
    ELSE IF pos >= Len(l.l) THEN Stop(pos)
    ELSE LET s == l.l[pos + 1]
             e == EntryErr(msg, s)
         IN IF e # "none" THEN Raise(e, pos) ELSE Yield(EntrySample(msg, s), pos + 1)

get_sample(v, msg, pos) ==
    CASE v = "InstanceScheduled" -> InstanceScheduled_get_sample(msg, pos)
      [] v = "Instance" -> Instance_get_sample(msg, pos)
      [] v = "Memory" -> Memory_get_sample(msg, pos)
      [] v = "VCpus" -> VCpus_get_sample(msg, pos)
      [] v = "RootDiskSize" -> RootDiskSize_get_sample(msg, pos)
      [] v = "EphemeralDiskSize" -> EphemeralDiskSize_get_sample(msg, pos)
      [] v = "InstanceFlavor" -> InstanceFlavor_get_sample(msg, pos)
      [] v = "InstanceDelete" -> InstanceDelete_get_sample(msg, pos)


(* ------------------- the messages of the model ------------------------- *)
\* the mappings of ds, and each with key k bound to each value of vs
With(ds, k, vs) == ds \cup {Put(d, k, v) : d \in ds, v \in vs}

\* d, and d without one of its keys
DropOne(d) == {d} \cup {Del(d, k) : k \in DOMAIN d}

UserMetadata ==
    {Map(Empty), Map([a |-> Str("1")]),
     Map([a |-> Str("1"), metadata |-> Map([b |-> Str("2")])])}

\* a list, a string, null
NotAMapping == {List(<<Str("a")>>), Str("m"), Null}

ComputeFields ==
    [user_id |-> Str("u"), tenant_id |-> Str("t"), instance_id |-> Str("i"),
     memory_mb |-> Num(512), vcpus |-> Num(2), root_gb |-> Num(10), ephemeral_gb |-> Num(20)]

\* instance properties kept outside the payload of a compute.instance.* message
ElsewhereSpec == Map([instance_properties |-> Map([project_id |-> Str("p1"),
                                                   metadata |-> Map([a |-> Str("9")])])])

CreatePayloads ==
    With(With(With(With(DropOne(ComputeFields),
        "instance_type", {Null, Str(""), Str("m1.small")}),
        "metadata", UserMetadata \cup NotAMapping),
        RESERVED_PREFIX \o "a", {Str("old")}),
        "request_spec", {ElsewhereSpec})

GoodEntries ==
    {Map([name |-> Str("cpu"), type |-> Str("cumulative"), unit |-> Str("ns"), volume |-> Num(7)]),
     Map([name |-> Str("disk"), type |-> Str("gauge"), unit |-> Str("B"), volume |-> Num(3),
          user_id |-> Str("eu"), instance_id |-> Str("ei")])}

BadEntries ==
    LET g == [name |-> Str("net"), type |-> Str("delta"), unit |-> Str("B"), volume |-> Num(5)]
    IN {Map(Del(g, k)) : k \in DOMAIN g}

RECURSIVE SeqsUpTo(_, _)
SeqsUpTo(S, n) ==
    IF n = 0 THEN {<<>>}
    ELSE SeqsUpTo(S, n - 1) \cup {Append(q, x) : q \in {r \in SeqsUpTo(S, n - 1) : Len(r) = n - 1}, x \in S}

DeletePayloads ==
    With({Put(d, "metadata", Map([a |-> Str("1")])) : d \in {ComputeFields, Del(ComputeFields, "user_id")}},
         "samples", {Null} \cup {List(q) : q \in SeqsUpTo(GoodEntries \cup BadEntries, MaxSamples)})

ScheduledProps ==
    With(With(With({Empty}, "project_id", {Str("p1")}),
        "metadata", UserMetadata \cup {Str("m")}),
        RESERVED_PREFIX \o "a", {Str("old")})

ScheduledPayloads ==
    With(With(With({Empty}, "instance_id", {Str("i1")}),
        "metadata", {Map([a |-> Str("8")])}),
        "request_spec", {Null, Map(Empty), Map([instance_properties |-> Null])}
                        \cup {Map([instance_properties |-> Map(p)]) : p \in ScheduledProps})

Message(et, payload) == Map([event_type |-> Str(et), payload |-> Map(payload)])

Messages ==
    {Message("compute.instance.create.end", p) : p \in CreatePayloads}
    \cup {Message("compute.instance.delete.samples", p) : p \in DeletePayloads}
    \cup {Message("scheduler.run_instance.scheduled", p) : p \in ScheduledPayloads}

(* ------------------- the caller ---------------------------------------- *)
\* message: the notification, mutated in place;  msg0: as it arrived;
\* pre: as it was when the current call began;  variant: the converter of
\* the current call;  pc: where the caller stands with the generator
\* ("idle", "returned", "exhausted", "raised", "discarded");  gi: the
\* position of the generator;  yielded: the samples handed to the caller;
\* err, errStep: the exception surfaced and the step that raised it;
\* runs: executions of the metadata test in the current call;  calls: calls
\* of process_notification on this message.
Init ==
    /\ message \in Messages
    /\ msg0 = message
    /\ pre = message
    /\ variant = "none"
    /\ pc = "idle"
    /\ gi = 0
    /\ yielded = <<>>
    /\ err = "none"
    /\ errStep = "none"
    /\ runs = 0
    /\ calls = 0

\* the dispatcher routes the message to converter v, which runs
\* process_notification: the pipeline, then the creation of the generator
ProcessNotification(v) ==
    /\ pc # "returned"
    /\ calls < MaxCalls
    /\ Routed(v, message)
    /\ LET r == process_notification(v, message) IN
        /\ message' = r.message
        /\ err' = r.err
        /\ errStep' = r.step
        /\ runs' = r.runs
        /\ pc' = IF r.err = "none" THEN "returned" ELSE "raised"
    /\ pre' = message
    /\ variant' = v
    /\ gi' = 0
    /\ yielded' = <<>>
    /\ calls' = calls + 1
    /\ UNCHANGED msg0

\* the caller asks the generator for its next sample and gets one
NextYields ==
    /\ pc = "returned"
    /\ LET d == get_sample(variant, message, gi) IN
        /\ d.kind = "yield"
        /\ yielded' = Append(yielded, d.sample[1])
        /\ gi' = d.next
    /\ UNCHANGED <<message, msg0, pre, variant, pc, err, errStep, runs, calls>>

\* the generator is exhausted
NextStops ==
    /\ pc = "returned"
    /\ get_sample(variant, message, gi).kind = "stop"
    /\ pc' = "exhausted"
    /\ UNCHANGED <<message, msg0, pre, variant, gi, yielded, err, errStep, runs, calls>>

\* the derivation raises into the caller
NextRaises ==
    /\ pc = "returned"
    /\ LET d == get_sample(variant, message, gi) IN
        /\ d.kind = "raise"
        /\ err' = d.err
    /\ errStep' = "derive"
    /\ pc' = "raised"
    /\ UNCHANGED <<message, msg0, pre, variant, gi, yielded, runs, calls>>

\* the caller drops the generator, iterated or not
Discard ==
    /\ pc = "returned"
    /\ pc' = "discarded"
    /\ UNCHANGED <<message, msg0, pre, variant, gi, yielded, err, errStep, runs, calls>>

Next ==
    \/ \E v \in Variants : ProcessNotification(v)
    \/ NextYields
    \/ NextStops
    \/ NextRaises
    \/ Discard

Spec == Init /\ [][Next]_vars

(* ------------------- vocabulary of the properties ---------------------- *)
\* the last call of process_notification returned its lazy sequence
Returned == pc \in {"returned", "exhausted", "discarded"} \/ (pc = "raised" /\ errStep = "derive")

\* where the instance properties of a message of this event type live
PropsPath(msg) ==
    IF msg.m["event_type"].s = "scheduler.run_instance.scheduled"
    THEN <<"payload", "request_spec", "instance_properties">>
    ELSE <<"payload">>

\* the instance properties of msg exist and are a mapping
PropsLocated(msg) == PathErr(msg, PropsPath(msg)) = "none" /\ IsDict(At(msg, PropsPath(msg)))

PropsOf(msg) == At(msg, PropsPath(msg)).m

\* props holds a mapping-valued metadata
MappingMetadata(props) == "metadata" \in DOMAIN props /\ props["metadata"].t = "dict"

Prefixed(md) == {RESERVED_PREFIX \o k : k \in DOMAIN md}

IdsPresent(msg) == {"user_id", "tenant_id", "instance_id"} \subseteq DOMAIN Payload(msg).m

WellFormed(s) == s.t = "dict" /\ {"name", "type", "unit", "volume"} \subseteq DOMAIN s.m

\* the fields of a sample, without its back-reference
Fields(smp) == [k \in (DOMAIN smp) \ {"message"} |-> smp[k]]

\* C1: after process_notification has returned on a message whose instance
\* properties held a mapping-valued metadata, the key metadata is absent
\* from the instance properties and every key k of the original mapping is
\* there as RESERVED_PREFIX + k with the identical value.
C1_MetadataMoved ==
    (Returned /\ PropsLocated(pre) /\ MappingMetadata(PropsOf(pre))) =>
        LET md == PropsOf(pre)["metadata"].m
            new == PropsOf(message)
        IN /\ "metadata" \notin DOMAIN new
           /\ \A k \in DOMAIN md :
                /\ (RESERVED_PREFIX \o k) \in DOMAIN new
                /\ new[RESERVED_PREFIX \o k] = md[k]

\* a call returned on properties whose metadata held a nested metadata key
\* and collided with a key already prefixed
C1_Witness ==
    /\ Returned /\ PropsLocated(pre) /\ MappingMetadata(PropsOf(pre))
    /\ "metadata" \in DOMAIN PropsOf(pre)["metadata"].m
    /\ (RESERVED_PREFIX \o "a") \in DOMAIN PropsOf(pre)
    /\ PropsOf(message)[RESERVED_PREFIX \o "a"] = Str("1")

\* C2: when the instance properties have no metadata key, or a metadata that
\* is no mapping, the sanitization leaves them unchanged and raises nothing.
C2_NoMappingUnchanged ==
    (pc # "idle" /\ PropsLocated(pre) /\ ~MappingMetadata(PropsOf(pre))) =>
        /\ errStep \notin {"locate", "sanitize"}
        /\ PropsOf(message) = PropsOf(pre)
        /\ message = pre

\* a call returned on properties whose metadata is a list
C2_Witness ==
    /\ Returned /\ PropsLocated(pre)
    /\ "metadata" \in DOMAIN PropsOf(pre)
    /\ PropsOf(pre)["metadata"].t = "list"
    /\ PropsOf(message)["metadata"] = PropsOf(pre)["metadata"]

\* the values the converters subscript or iterate have the shape they expect
WellShaped(msg) ==
    LET p == Payload(msg).m IN
    /\ "request_spec" \in DOMAIN p =>
          /\ p["request_spec"].t = "dict"
          /\ "instance_properties" \in DOMAIN p["request_spec"].m =>
                p["request_spec"].m["instance_properties"].t = "dict"
    /\ "samples" \in DOMAIN p =>
          /\ p["samples"].t = "list"
          /\ \A i \in 1..Len(p["samples"].l) : p["samples"].l[i].t = "dict"

\* C3 (as stated): the locating and sanitizing part never raises; a failure
\* comes only from the derivation step and only as a missing key.
C3_OnlyDerivationFails ==
    err # "none" => (errStep = "derive" /\ err = "KeyError")

\* C3 (amended): sanitizing located mapping properties never raises; a
\* failure comes from the instance properties lookup of InstanceScheduled
\* or from the derivation step, it is a missing key whenever the message is
\* well shaped, and it always reaches the caller.
C3_FailureSources ==
    /\ (pc = "raised") = (err # "none")
    /\ err # "none" =>
        /\ errStep \in {"locate", "sanitize", "derive"}
        /\ errStep = "sanitize" => ~IsDict(At(pre, PropsPath(pre)))
        /\ errStep = "locate" => variant = "InstanceScheduled"
        /\ WellShaped(msg0) => err = "KeyError"

\* InstanceScheduled failed with a missing key while locating the properties
C3_Witness ==
    /\ variant = "InstanceScheduled" /\ pc = "raised"
    /\ errStep = "locate" /\ err = "KeyError"
    /\ "request_spec" \notin DOMAIN Payload(message).m

Entries(msg) ==
    IF "samples" \in DOMAIN Payload(msg).m THEN Payload(msg).m["samples"].l ELSE <<>>

SamplesListOrAbsent(msg) ==
    "samples" \in DOMAIN Payload(msg).m => Payload(msg).m["samples"].t = "list"

\* the sample InstanceDelete owes to entry s of msg
EntryFields(msg, s) ==
    [name |-> s.m["name"], type |-> s.m["type"], unit |-> s.m["unit"], volume |-> s.m["volume"],
     user_id |-> Payload(msg).m["user_id"], project_id |-> Payload(msg).m["tenant_id"],
     resource_id |-> Payload(msg).m["instance_id"]]

\* C5: InstanceDelete on n well-formed entries yields exactly n samples, in
\* list order, name/type/unit/volume from the entry and the ids from the
\* top-level payload; an empty or absent list yields nothing and no error.
C5_DeleteBatch ==
    (variant = "InstanceDelete" /\ Returned /\ SamplesListOrAbsent(message)
       /\ (\A i \in 1..Len(Entries(message)) : WellFormed(Entries(message)[i]))
       /\ (IdsPresent(message) \/ Entries(message) = <<>>)) =>
        /\ pc # "raised"
        /\ Len(yielded) <= Len(Entries(message))
        /\ pc = "exhausted" => Len(yielded) = Len(Entries(message))
        /\ \A i \in 1..Len(yielded) :
              Fields(yielded[i]) = EntryFields(message, Entries(message)[i])

\* a batch of two different entries, one of them carrying ids of its own,
\* was iterated to its end
C5_Witness ==
    /\ variant = "InstanceDelete" /\ pc = "exhausted"
    /\ Len(yielded) = 2 /\ Len(Entries(message)) = 2
    /\ yielded[1].name # yielded[2].name
    /\ "user_id" \in DOMAIN Entries(message)[2].m
    /\ yielded[2].user_id = Str("u")

HasMalformed(msg) ==
    /\ "samples" \in DOMAIN Payload(msg).m
    /\ Payload(msg).m["samples"].t = "list"
    /\ \E i \in 1..Len(Entries(msg)) : ~WellFormed(Entries(msg)[i])

FirstMalformed(msg) ==
    CHOOSE j \in 1..Len(Entries(msg)) :
        /\ ~WellFormed(Entries(msg)[j])
        /\ \A h \in 1..(j - 1) : WellFormed(Entries(msg)[h])

C7_Flavor ==
    (variant = "InstanceFlavor" /\ Returned) =>
        LET p == Payload(message).m IN
        /\ ("instance_type" \notin DOMAIN p \/ p["instance_type"] \in {Null, Str("")}) =>
              (pc # "raised" /\ yielded = <<>>)
        /\ ("instance_type" \in DOMAIN p /\ p["instance_type"].t = "str"
              /\ p["instance_type"].s # "" /\ IdsPresent(message)) =>
              /\ pc # "raised"
              /\ Len(yielded) <= 1
              /\ pc = "exhausted" => Len(yielded) = 1
              /\ \A i \in 1..Len(yielded) :
                    Fields(yielded[i]) =
                        [name |-> Str("instance:" \o p["instance_type"].s), type |-> Str("gauge"),
                         unit |-> Str("instance"), volume |-> Num(1),
                         user_id |-> p["user_id"], project_id |-> p["tenant_id"],
                         resource_id |-> p["instance_id"]]

\* an empty label and a missing id: the sequence ended empty
C7_Witness ==
    /\ variant = "InstanceFlavor" /\ pc = "exhausted" /\ yielded = <<>>
    /\ "instance_type" \in DOMAIN Payload(message).m
    /\ Payload(message).m["instance_type"] = Str("")
    /\ ~IdsPresent(message)

\* the table row of a single-sample compute.instance.* converter
Row(v) ==
    CASE v = "Instance" -> [name |-> "instance", unit |-> "instance", volume |-> ""]
      [] v = "Memory" -> [name |-> "memory", unit |-> "MB", volume |-> "memory_mb"]
      [] v = "VCpus" -> [name |-> "vcpus", unit |-> "vcpu", volume |-> "vcpus"]
      [] v = "RootDiskSize" -> [name |-> "disk.root.size", unit |-> "GB", volume |-> "root_gb"]
      [] v = "EphemeralDiskSize" -> [name |-> "disk.ephemeral.size", unit |-> "GB", volume |-> "ephemeral_gb"]

\* the message holds the fields converter v reads
HoldsFields(v, msg) ==
    IF v = "InstanceScheduled"
    THEN /\ PathErr(msg, <<"payload", "request_spec", "instance_properties", "project_id">>) = "none"
         /\ "instance_id" \in DOMAIN Payload(msg).m
    ELSE /\ IdsPresent(msg)
         /\ Row(v).volume # "" => Row(v).volume \in DOMAIN Payload(msg).m

\* the one sample converter v owes to msg
Expected(v, msg) ==
    LET p == Payload(msg).m IN
    IF v = "InstanceScheduled"
    THEN [name |-> Str("instance.scheduled"), type |-> Str("delta"), unit |-> Str("instance"),
          volume |-> Num(1), user_id |-> Null,
          project_id |-> p["request_spec"].m["instance_properties"].m["project_id"],
          resource_id |-> p["instance_id"]]
    ELSE [name |-> Str(Row(v).name), type |-> Str("gauge"), unit |-> Str(Row(v).unit),
          volume |-> IF Row(v).volume = "" THEN Num(1) ELSE p[Row(v).volume],
          user_id |-> p["user_id"], project_id |-> p["tenant_id"],
          resource_id |-> p["instance_id"]]

SingleSample == {"InstanceScheduled", "Instance", "Memory", "VCpus", "RootDiskSize", "EphemeralDiskSize"}

\* C8: each single-sample converter, on a message holding the fields it
\* reads, yields exactly one sample, the one of its table row.
C8_TableRows ==
    (variant \in SingleSample /\ Returned /\ HoldsFields(variant, message)) =>
        /\ pc # "raised"
        /\ Len(yielded) <= 1
        /\ pc = "exhausted" => Len(yielded) = 1
        /\ \A i \in 1..Len(yielded) : Fields(yielded[i]) = Expected(variant, message)

\* RootDiskSize was iterated to its end on a message with every field
C8_Witness ==
    /\ variant = "RootDiskSize" /\ pc = "exhausted" /\ Len(yielded) = 1
    /\ yielded[1].volume = Num(10)
    /\ DOMAIN ComputeFields \subseteq DOMAIN Payload(message).m

\* C9: a further run of the sanitization on instance properties already
\* sanitized raises nothing and leaves the message as the run before left it.
C9_Idempotent ==
    (calls >= 2 /\ PropsLocated(pre)) =>
        /\ errStep \notin {"locate", "sanitize"}
        /\ message = pre

\* a second converter ran on a message the first had rewritten
C9_Witness ==
    /\ calls = 2 /\ Returned
    /\ PropsLocated(msg0) /\ MappingMetadata(PropsOf(msg0))
    /\ pre # msg0
    /\ message = pre

\* new is old, or old with its mapping-valued metadata merged
MergedOrSame(old, new) ==
    \/ new = old
    \/ /\ old.t = "dict" /\ new.t = "dict"
       /\ MappingMetadata(old.m)
       /\ LET md == old.m["metadata"].m IN
            /\ DOMAIN new.m = ((DOMAIN old.m) \ {"metadata"}) \cup Prefixed(md)
            /\ \A k \in (DOMAIN old.m) \ ({"metadata"} \cup Prefixed(md)) : new.m[k] = old.m[k]
            /\ \A k \in DOMAIN md : new.m[RESERVED_PREFIX \o k] = md[k]

RECURSIVE FrameOK(_, _, _)
\* new differs from old at most by the merge at the end of path
FrameOK(old, new, path) ==
    IF path = <<>> THEN MergedOrSame(old, new)
    ELSE IF old.t # "dict" \/ Head(path) \notin DOMAIN old.m THEN new = old
    ELSE /\ new.t = "dict"
         /\ DOMAIN new.m = DOMAIN old.m
         /\ \A k \in (DOMAIN old.m) \ {Head(path)} : new.m[k] = old.m[k]
         /\ FrameOK(old.m[Head(path)], new.m[Head(path)], Tail(path))

\* C10: whatever was called and however far the results were iterated, the
\* message differs from the one that arrived at most by the metadata merge
\* inside the instance properties of its event type.
C10_Frame == FrameOK(msg0, message, PropsPath(msg0))

\* InstanceScheduled rewrote the nested properties of a message that also
\* has a metadata key in its payload, and was iterated to its end
C10_Witness ==
    /\ variant = "InstanceScheduled" /\ pc = "exhausted"
    /\ message # msg0
    /\ "metadata" \in DOMAIN Payload(msg0).m
    /\ Payload(message).m["metadata"] = Payload(msg0).m["metadata"]

====
